---- MODULE Spec2Model ----
(***************************************************************************)
(* Model of eda_cli: the EDA core (summarize_dataset, missing_table,       *)
(* compute_quality_flags in core.py) and the HTTP handlers of api.py       *)
(* (/quality, /quality-from-csv, /quality-flags-from-csv).                 *)
(*                                                                         *)
(* Python floats are modelled as exact rationals <<n, d>> in lowest terms  *)
(* with d > 0.  Two places where binary floating point changes an          *)
(* observable result are modelled explicitly: int(non_null * 0.7)          *)
(* (IntOfMul07) and round(score, 3) (Round3).  The one-ulp drift of the    *)
(* chained subtractions of the score is not modelled.  An absent value     *)
(* (None, NaN cell) is the empty tuple <<>>.                               *)
(***************************************************************************)
EXTENDS Integers, Sequences, FiniteSets, TLC

VARIABLES
    pc,          \* position of the request being served
    endpoint,    \* which entry point serves it
    req,         \* QualityRequest of POST /quality
    file,        \* uploaded file of the CSV endpoints
    df,          \* the DataFrame in hand
    summary,     \* DatasetSummary
    missing_df,  \* table of missing values, one row per column
    flags,       \* dict returned by compute_quality_flags
    score,       \* local variable score of the handlers
    calls,       \* core functions called so far, in call order
    response     \* what the caller gets back

vars == <<pc, endpoint, req, file, df, summary, missing_df, flags, score, calls, response>>

-----------------------------------------------------------------------------
(* Bounds of the model.                                                    *)

MaxRows == 2          \* rows of a modelled DataFrame
MaxCols == 2          \* columns of a modelled DataFrame
MaxSummaryCols == 2   \* columns of a hand-built DatasetSummary

-----------------------------------------------------------------------------
(* Exact rationals standing for float values.                              *)

None == <<>>

Abs(i) == IF i < 0 THEN -i ELSE i

RECURSIVE GCD(_, _)
GCD(a, b) == IF b = 0 THEN a ELSE GCD(b, a % b)

Rat(n, d) ==
    LET g == GCD(Abs(n), Abs(d))
        s == IF d < 0 THEN -1 ELSE 1
    IN  <<(s * n) \div g, (s * d) \div g>>

RatOfInt(i) == <<i, 1>>
RatSub(a, b) == Rat(a[1] * b[2] - b[1] * a[2], a[2] * b[2])
RatMul(a, b) == Rat(a[1] * b[1], a[2] * b[2])
RatLT(a, b) == a[1] * b[2] < b[1] * a[2]
RatLE(a, b) == a[1] * b[2] <= b[1] * a[2]
RatMax(a, b) == IF RatLT(a, b) THEN b ELSE a
RatMin(a, b) == IF RatLT(b, a) THEN b ELSE a

Zero == RatOfInt(0)
One == RatOfInt(1)

\* max(0.0, min(1.0, score))
Clamp01(x) == RatMax(Zero, RatMin(One, x))

-----------------------------------------------------------------------------
(* DataFrames.  A cell is <<>> (NaN) or <<v>>; a column has a name, a      *)
(* dtype and one cell per row.  A float64 column holds the numbers 0 and   *)
(* 1; an object column holds text, of which one value (written 1) is       *)
(* modelled.                                                               *)

NaN == <<>>
CellValues == {NaN, <<0>>, <<1>>}
Dtypes == {"float64", "object"}

ColName(i) == "c" \o ToString(i)

\* what fills one column of a DataFrame of r rows
ColumnData(r) ==
    [dtype : {"float64"}, cells : [1..r -> CellValues]]
        \cup [dtype : {"object"}, cells : [1..r -> {NaN, <<1>>}]]

\* the DataFrame of r rows whose i-th column is named c<i> and holds f[i]
Frame(r, f) ==
    [n_rows |-> r,
     cols |-> [i \in 1..Len(f) |-> [name |-> ColName(i),
                                    dtype |-> f[i].dtype,
                                    cells |-> f[i].cells]]]

NoFrame == [n_rows |-> 0, cols |-> <<>>]

\* df.shape
Shape(d) == <<d.n_rows, Len(d.cols)>>

\* df.empty: some axis has length 0
IsEmpty(d) == d.n_rows = 0 \/ Len(d.cols) = 0

-----------------------------------------------------------------------------
(* core.py: summarize_dataset.                                             *)

example_values_per_column == 3

\* s.notna() / s.dropna(): the cells that hold a value
NotNa(cells) == SelectSeq(cells, LAMBDA c : c # NaN)

\* s.isna(): the cells that hold none
IsNa(cells) == SelectSeq(cells, LAMBDA c : c = NaN)

\* s.nunique(dropna=True)
NUnique(cells) == Cardinality({ cells[i] : i \in { j \in 1..Len(cells) : cells[j] # NaN } })

\* str(v) of a cell value: a float64 column renders 0 as "0.0"
AsStr(dtype, c) == IF dtype = "float64" THEN ToString(c[1]) \o ".0" ELSE ToString(c[1])

\* Series.unique(): the distinct elements in order of first occurrence
RECURSIVE UniqueInOrder(_)
UniqueInOrder(s) ==
    IF s = <<>> THEN <<>>
    ELSE LET init == UniqueInOrder(SubSeq(s, 1, Len(s) - 1))
             last == s[Len(s)]
         IN  IF \E i \in 1..Len(init) : init[i] = last THEN init ELSE Append(init, last)

\* seq[:k]
Take(s, k) == SubSeq(s, 1, IF Len(s) < k THEN Len(s) ELSE k)

\* ptypes.is_numeric_dtype
is_numeric_dtype(dtype) == dtype \in {"int64", "float64"}

SeqMin(s) == CHOOSE m \in { s[i][1] : i \in 1..Len(s) } : \A i \in 1..Len(s) : m <= s[i][1]
SeqMax(s) == CHOOSE m \in { s[i][1] : i \in 1..Len(s) } : \A i \in 1..Len(s) : m >= s[i][1]

\* the share of a table without rows taken for 1.0
missing_share_all_when_no_rows(missing, n_rows) ==
    IF n_rows > 0 THEN Rat(missing, n_rows) ELSE One

\* float(missing / n_rows) if n_rows > 0 else 0.0
missing_share_of(missing, n_rows) == IF n_rows > 0 THEN Rat(missing, n_rows) ELSE Zero

\* the body of the loop over df.columns: one ColumnSummary
ColumnSummary(col, n_rows) ==
    LET non_null == Len(NotNa(col.cells))
        missing == n_rows - non_null
        missing_share == missing_share_of(missing, n_rows)
        unique == NUnique(col.cells)
        strs == [i \in 1..non_null |-> AsStr(col.dtype, NotNa(col.cells)[i])]
        examples == IF non_null > 0
                    THEN Take(UniqueInOrder(strs), example_values_per_column)
                    ELSE <<>>
        is_numeric == is_numeric_dtype(col.dtype)
        stats == is_numeric /\ non_null > 0
    IN  [name |-> col.name,
         dtype |-> col.dtype,
         non_null |-> non_null,
         missing |-> missing,
         missing_share |-> missing_share,
         unique |-> unique,
         example_values |-> examples,
         is_numeric |-> is_numeric,
         min |-> IF stats THEN RatOfInt(SeqMin(NotNa(col.cells))) ELSE None,
         max |-> IF stats THEN RatOfInt(SeqMax(NotNa(col.cells))) ELSE None]

summarize_dataset(d) ==
    [n_rows |-> Shape(d)[1],
     n_cols |-> Shape(d)[2],
     columns |-> [i \in 1..Len(d.cols) |-> ColumnSummary(d.cols[i], Shape(d)[1])]]

NoSummary == [n_rows |-> 0, n_cols |-> 0, columns |-> <<>>]

-----------------------------------------------------------------------------
(* core.py: missing_table.                                                 *)

\* insert row r into a list sorted by descending missing_share, after its equals
RECURSIVE InsertDesc(_, _)
InsertDesc(sorted, r) ==
    IF sorted = <<>> THEN <<r>>
    ELSE IF RatLT(sorted[1].missing_share, r.missing_share)
         THEN <<r>> \o sorted
         ELSE <<sorted[1]>> \o InsertDesc(Tail(sorted), r)

\* .sort_values("missing_share", ascending=False)
RECURSIVE SortDesc(_)
SortDesc(rows) ==
    IF rows = <<>> THEN <<>>
    ELSE InsertDesc(SortDesc(SubSeq(rows, 1, Len(rows) - 1)), rows[Len(rows)])

missing_table(d) ==
    IF IsEmpty(d) THEN <<>>
    ELSE SortDesc([i \in 1..Len(d.cols) |->
            LET total == Len(IsNa(d.cols[i].cells))
            IN  [name |-> d.cols[i].name,
                 missing_count |-> total,
                 missing_share |-> Rat(total, d.n_rows)]])

-----------------------------------------------------------------------------
(* core.py: compute_quality_flags.                                         *)

\* float(missing_df["missing_share"].max()) if not missing_df.empty else 0.0
RECURSIVE ShareMax(_)
ShareMax(rows) ==
    IF Len(rows) = 1 THEN rows[1].missing_share
    ELSE RatMax(rows[1].missing_share, ShareMax(Tail(rows)))

\* the last row of the table taken for the worst one
max_missing_share_last(m) == IF m # <<>> THEN m[Len(m)].missing_share ELSE Zero

max_missing_share_of(m) == IF m # <<>> THEN ShareMax(m) ELSE Zero

\* [col.name for col in cols]
Names(cols) == [i \in 1..Len(cols) |-> cols[i].name]

\* the comparison written as unique < 1
constant_columns_lt(s) == Names(SelectSeq(s.columns, LAMBDA col : col.unique < 1))

\* [col.name for col in summary.columns if col.unique <= 1]
constant_columns(s) == Names(SelectSeq(s.columns, LAMBDA col : col.unique <= 1))

\* the largest power of two below k (k > 1)
RECURSIVE Pow2Below(_, _)
Pow2Below(p, k) == IF 2 * p < k THEN Pow2Below(2 * p, k) ELSE p

\* int(n * 0.7) in IEEE-754 double arithmetic, n >= 0.  The double 0.7 is
\* 0.7 - 0.4 * 2^-53, so the exact product is 0.7n - 0.4n * 2^-53.  When n is
\* not a multiple of 10, truncation gives floor(7n/10).  When it is, 0.7n is
\* the integer k = 7n/10, the doubles below k are 2^(e-53) apart (2^(e-1) the
\* largest power of two below k), and the product rounds to k unless
\* 0.4n * 2^-53 exceeds half that spacing, 0.4n > 2^(e-1), when it rounds to
\* the double below k and truncation gives k - 1 (n = 90: 62, not 63).
IntOfMul07(n) ==
    LET k == (7 * n) \div 10
    IN  IF n % 10 = 0 /\ k > 1 /\ 4 * n > 10 * Pow2Below(1, k) THEN k - 1 ELSE k

\* the test of the loop that collects high_zero_columns
IsHighZero(col) ==
    /\ col.is_numeric /\ col.non_null > 0 /\ col.min # None
    /\ col.min = Zero
    /\ col.unique <= IntOfMul07(col.non_null)

high_zero_columns_of(s) == Names(SelectSeq(s.columns, IsHighZero))

\* the score without the lower clamp: min(1.0, score) alone
quality_score_no_floor(max_missing_share, too_few_rows, too_many_columns, has_constant, has_zeros) ==
    LET s1 == RatSub(One, max_missing_share)
        s2 == IF too_few_rows THEN RatSub(s1, Rat(2, 10)) ELSE s1
        s3 == IF too_many_columns THEN RatSub(s2, Rat(1, 10)) ELSE s2
        s4 == IF has_constant THEN RatSub(s3, Rat(15, 100)) ELSE s3
        s5 == IF has_zeros THEN RatSub(s4, Rat(15, 100)) ELSE s4
    IN  RatMin(One, s5)

\* score = 1.0, less the penalties, clamped
quality_score_of(max_missing_share, too_few_rows, too_many_columns, has_constant, has_zeros) ==
    LET s1 == RatSub(One, max_missing_share)
        s2 == IF too_few_rows THEN RatSub(s1, Rat(2, 10)) ELSE s1
        s3 == IF too_many_columns THEN RatSub(s2, Rat(1, 10)) ELSE s2
        s4 == IF has_constant THEN RatSub(s3, Rat(15, 100)) ELSE s3
        s5 == IF has_zeros THEN RatSub(s4, Rat(15, 100)) ELSE s4
    IN  Clamp01(s5)

compute_quality_flags(s, m) ==
    LET too_few_rows == s.n_rows < 100
        too_many_columns == s.n_cols > 100
        max_missing_share == max_missing_share_of(m)
        constant == constant_columns(s)
        high_zero == high_zero_columns_of(s)
    IN  [too_few_rows |-> too_few_rows,
         too_many_columns |-> too_many_columns,
         max_missing_share |-> max_missing_share,
         too_many_missing |-> RatLT(Rat(1, 2), max_missing_share),
         has_constant_columns |-> Len(constant) > 0,
         constant_columns_count |-> Len(constant),
         constant_column_names |-> constant,
         has_many_zero_values |-> Len(high_zero) > 0,
         high_zero_columns |-> Len(high_zero),
         high_zero_column_names |-> high_zero,
         quality_score |-> quality_score_of(max_missing_share, too_few_rows,
                                            too_many_columns, Len(constant) > 0,
                                            Len(high_zero) > 0)]

NoFlags == [x \in {} |-> FALSE]

-----------------------------------------------------------------------------
(* Hand-built inputs of compute_quality_flags, as the unit test builds     *)
(* them: a DatasetSummary and a missing table that need not agree.         *)

\* (non_null, unique) of a hand-built column
Counts == {<<0, 0>>, <<4, 1>>, <<4, 2>>, <<4, 3>>, <<90, 63>>}

\* what a column of n_rows rows with these counts summarizes to
ColumnProfiles(n_rows) ==
    { [name |-> "", dtype |-> dt, non_null |-> c[1], missing |-> n_rows - c[1],
       missing_share |-> Rat(n_rows - c[1], n_rows), unique |-> c[2],
       example_values |-> <<>>, is_numeric |-> is_numeric_dtype(dt),
       min |-> mn, max |-> mn] :
        dt \in Dtypes, c \in Counts, mn \in {None, RatOfInt(0), RatOfInt(5)} }

\* min and max are set exactly for a numeric column that has values
WellFormed(col) == (col.min # None) <=> (col.is_numeric /\ col.non_null > 0)

Named(col, i) == [col EXCEPT !.name = ColName(i)]

\* the hand-built columns a summary of r rows may list
Profiles(r) == { p \in ColumnProfiles(r) : WellFormed(p) }

\* the DatasetSummary of r rows and c columns that lists the columns f
HandBuilt(r, c, f) ==
    [n_rows |-> r, n_cols |-> c, columns |-> [i \in 1..Len(f) |-> Named(f[i], i)]]

ShareGrid == {Rat(-1, 2), Zero, Rat(1, 2), One}
IndexLists == {<<>>, <<"c1">>, <<"c1", "c2">>, <<"zz">>}

MissingFrames ==
    UNION { { [i \in 1..Len(idx) |-> [name |-> idx[i],
                                      missing_count |-> sh[i][1],
                                      missing_share |-> sh[i]]] :
                sh \in [1..Len(idx) -> ShareGrid] } : idx \in IndexLists }

-----------------------------------------------------------------------------
(* api.py: requests and responses.                                         *)

QualityRequests ==
    [n_rows : {-1, 0, 10, 49, 50},
     n_cols : {-1, 0, 2, 3, 5},
     max_missing_share : {Rat(-1, 2), Zero, Rat(1, 2000), Rat(1, 10), Rat(3, 10),
                          Rat(301, 1000), Rat(1, 2), One, Rat(3, 2)},
     numeric_cols : {-1, 0, 1, 3, 5, 6},
     categorical_cols : {0, 2}]

NoRequest == [n_rows |-> 0, n_cols |-> 0, max_missing_share |-> Zero,
              numeric_cols |-> 0, categorical_cols |-> 0]

\* an upload: bytes pd.read_csv rejects, or the text of a table with a header
Unreadable == [parseable |-> FALSE, table |-> NoFrame]
CsvOf(d) == [parseable |-> TRUE, table |-> d]

NoFile == Unreadable

NoBody == [x \in {} |-> FALSE]
NoResponse == [status |-> 0, detail |-> "", body |-> NoBody]

HTTPException(status_code, detail) == [status |-> status_code, detail |-> detail, body |-> NoBody]
Ok(body) == [status |-> 200, detail |-> "", body |-> body]

\* round(x, 3) for x >= 0, as a set of thousandths: the nearest one, and both
\* neighbours when x lies halfway in exact arithmetic, where the binary value
\* of the float decides
Round3(x) ==
    LET q == (1000 * x[1]) \div x[2]
        r == 1000 * x[1] - q * x[2]
    IN  IF 2 * r < x[2] THEN {Rat(q, 1000)}
        ELSE IF 2 * r > x[2] THEN {Rat(q + 1, 1000)}
        ELSE {Rat(q, 1000), Rat(q + 1, 1000)}

\* "v == False" in place of "not v": an empty list does not equal False
Falsy_eq_false(k, v) ==
    IF k \in {"max_missing_share", "quality_score"} THEN v = Zero
    ELSE IF k \in {"constant_columns_count", "high_zero_columns"} THEN v = 0
    ELSE IF k \in {"constant_column_names", "high_zero_column_names"} THEN FALSE
    ELSE ~v

\* "not v" of a flag value: False, 0, 0.0 and [] are falsy
Falsy(k, v) ==
    IF k \in {"max_missing_share", "quality_score"} THEN v = Zero
    ELSE IF k \in {"constant_columns_count", "high_zero_columns"} THEN v = 0
    ELSE IF k \in {"constant_column_names", "high_zero_column_names"} THEN v = <<>>
    ELSE ~v

\* sum(1 for v in flags.values() if not v) / max(len(flags), 1)
FalsyShare(f) ==
    LET n == Cardinality(DOMAIN f)
    IN  Rat(Cardinality({ k \in DOMAIN f : Falsy(k, f[k]) }), IF n > 1 THEN n ELSE 1)

-----------------------------------------------------------------------------
(* The state machine: one request, or one call of the core, at a time.     *)

Init ==
    /\ pc = "idle"
    /\ endpoint = ""
    /\ req = NoRequest
    /\ file = NoFile
    /\ df = NoFrame
    /\ summary = NoSummary
    /\ missing_df = <<>>
    /\ flags = NoFlags
    /\ score = Zero
    /\ calls = <<>>
    /\ response = NoResponse

(* POST /quality *)

PostQuality ==
    /\ pc = "idle"
    /\ \E r \in QualityRequests : req' = r
    /\ endpoint' = "/quality"
    /\ pc' = "validate"
    /\ UNCHANGED <<file, df, summary, missing_df, flags, score, calls, response>>

\* the validation without its test of n_cols
QualityValidate_rows_only ==
    /\ pc = "validate"
    /\ IF req.n_rows <= 0
       THEN /\ response' = HTTPException(400, "n_rows and n_cols must be > 0")
            /\ pc' = "done"
       ELSE /\ pc' = "score"
            /\ UNCHANGED response
    /\ UNCHANGED <<endpoint, req, file, df, summary, missing_df, flags, score, calls>>

\* if req.n_rows <= 0 or req.n_cols <= 0: raise HTTPException(400, ...)
QualityValidate ==
    /\ pc = "validate"
    /\ IF req.n_rows <= 0 \/ req.n_cols <= 0
       THEN /\ response' = HTTPException(400, "n_rows and n_cols must be > 0")
            /\ pc' = "done"
       ELSE /\ pc' = "score"
            /\ UNCHANGED response
    /\ UNCHANGED <<endpoint, req, file, df, summary, missing_df, flags, score, calls>>

\* the handler with the full-table threshold of 100 rows for too_few_rows
QualityScore_core_threshold ==
    /\ pc = "score"
    /\ IF req.n_cols = 0
       THEN /\ response' = [status |-> 500, detail |-> "ZeroDivisionError", body |-> NoBody]
            /\ pc' = "done"
            /\ UNCHANGED <<score, flags>>
       ELSE /\ score' = Clamp01(RatMul(RatSub(One, req.max_missing_share),
                                       Rat(req.numeric_cols, req.n_cols)))
            /\ flags' = [too_few_rows |-> req.n_rows < 100,
                         too_many_missing |-> RatLT(Rat(3, 10), req.max_missing_share)]
            /\ pc' = "respond"
            /\ UNCHANGED response
    /\ UNCHANGED <<endpoint, req, file, df, summary, missing_df, calls>>

\* score and flags; the division raises ZeroDivisionError on n_cols == 0
QualityScore ==
    /\ pc = "score"
    /\ IF req.n_cols = 0
       THEN /\ response' = [status |-> 500, detail |-> "ZeroDivisionError", body |-> NoBody]
            /\ pc' = "done"
            /\ UNCHANGED <<score, flags>>
       ELSE /\ score' = Clamp01(RatMul(RatSub(One, req.max_missing_share),
                                       Rat(req.numeric_cols, req.n_cols)))
            /\ flags' = [too_few_rows |-> req.n_rows < 50,
                         too_many_missing |-> RatLT(Rat(3, 10), req.max_missing_share)]
            /\ pc' = "respond"
            /\ UNCHANGED response
    /\ UNCHANGED <<endpoint, req, file, df, summary, missing_df, calls>>

QualityRespond ==
    /\ pc = "respond" /\ endpoint = "/quality"
    /\ \E rounded \in Round3(score) :
         response' = Ok([ok_for_model |-> RatLE(Rat(1, 2), score),
                         quality_score |-> rounded,
                         message |-> IF RatLE(Rat(1, 2), score) THEN "ok" ELSE "low quality",
                         flags |-> flags,
                         dataset_shape |-> <<req.n_rows, req.n_cols>>])
    /\ pc' = "done"
    /\ UNCHANGED <<endpoint, req, file, df, summary, missing_df, flags, score, calls>>

(* POST /quality-from-csv and POST /quality-flags-from-csv *)

CsvEndpoints == {"/quality-from-csv", "/quality-flags-from-csv"}

PostCsv ==
    /\ pc = "idle"
    /\ \E e \in CsvEndpoints : endpoint' = e
    /\ \/ file' = Unreadable
       \/ \E r \in 0..MaxRows, c \in 1..MaxCols :
            \E f \in [1..c -> ColumnData(r)] : file' = CsvOf(Frame(r, f))
    /\ pc' = "read_csv"
    /\ UNCHANGED <<req, df, summary, missing_df, flags, score, calls, response>>

\* try: df = pd.read_csv(file.file) / except: raise HTTPException(400, ...)
ReadCsv ==
    /\ pc = "read_csv"
    /\ calls' = Append(calls, "read_csv")
    /\ IF file.parseable
       THEN /\ df' = file.table
            /\ pc' = "check_empty"
            /\ UNCHANGED response
       ELSE /\ response' = HTTPException(400, "Cannot read CSV")
            /\ pc' = "done"
            /\ UNCHANGED df
    /\ UNCHANGED <<endpoint, req, file, summary, missing_df, flags, score>>

\* the handler without its test of df.empty
CheckEmpty_never ==
    /\ pc = "check_empty"
    /\ calls' = Append(calls, "df.empty")
    /\ pc' = "summarize"
    /\ UNCHANGED <<endpoint, req, file, df, summary, missing_df, flags, score, response>>

\* if df.empty: raise HTTPException(400, ...)
CheckEmpty ==
    /\ pc = "check_empty"
    /\ calls' = Append(calls, "df.empty")
    /\ IF IsEmpty(df)
       THEN /\ response' = HTTPException(400, "Empty CSV")
            /\ pc' = "done"
       ELSE /\ pc' = "summarize"
            /\ UNCHANGED response
    /\ UNCHANGED <<endpoint, req, file, df, summary, missing_df, flags, score>>

(* the three calls into the core, shared by both CSV handlers and by a     *)
(* direct use of the library                                               *)

Summarize ==
    /\ pc = "summarize"
    /\ summary' = summarize_dataset(df)
    /\ calls' = Append(calls, "summarize_dataset")
    /\ pc' = "missing"
    /\ UNCHANGED <<endpoint, req, file, df, missing_df, flags, score, response>>

Missing ==
    /\ pc = "missing"
    /\ missing_df' = missing_table(df)
    /\ calls' = Append(calls, "missing_table")
    /\ pc' = "flags"
    /\ UNCHANGED <<endpoint, req, file, df, summary, flags, score, response>>

Flags ==
    /\ pc = "flags"
    /\ flags' = compute_quality_flags(summary, missing_df)
    /\ calls' = Append(calls, "compute_quality_flags")
    /\ pc' = IF endpoint \in CsvEndpoints THEN "respond" ELSE "done"
    /\ UNCHANGED <<endpoint, req, file, df, summary, missing_df, score, response>>

QualityFromCsvRespond ==
    /\ pc = "respond" /\ endpoint = "/quality-from-csv"
    /\ score' = FalsyShare(flags)
    /\ \E rounded \in Round3(FalsyShare(flags)) :
         response' = Ok([ok_for_model |-> RatLE(Rat(1, 2), FalsyShare(flags)),
                         quality_score |-> rounded,
                         message |-> IF RatLE(Rat(1, 2), FalsyShare(flags))
                                     THEN "ok" ELSE "low quality",
                         flags |-> flags,
                         dataset_shape |-> Shape(df)])
    /\ pc' = "done"
    /\ UNCHANGED <<endpoint, req, file, df, summary, missing_df, flags, calls>>

QualityFlagsFromCsvRespond ==
    /\ pc = "respond" /\ endpoint = "/quality-flags-from-csv"
    /\ response' = Ok([flags |-> flags, n_rows |-> Shape(df)[1], n_cols |-> Shape(df)[2]])
    /\ pc' = "done"
    /\ UNCHANGED <<endpoint, req, file, df, summary, missing_df, flags, score, calls>>

(* the core used as a library *)

\* summarize_dataset, missing_table and compute_quality_flags on any DataFrame,
\* the zero-row and the zero-column ones included
CoreOnFrame ==
    /\ pc = "idle"
    /\ \E r \in 0..MaxRows, c \in 0..MaxCols :
         \E f \in [1..c -> ColumnData(r)] : df' = Frame(r, f)
    /\ endpoint' = "core"
    /\ pc' = "summarize"
    /\ UNCHANGED <<req, file, summary, missing_df, flags, score, calls, response>>

\* compute_quality_flags on a hand-built summary and missing table
CallComputeQualityFlags ==
    /\ pc = "idle"
    /\ \E r \in {99, 100}, c \in {100, 101}, k \in 0..MaxSummaryCols :
         \E f \in [1..k -> Profiles(r)], m \in MissingFrames :
            /\ summary' = HandBuilt(r, c, f)
            /\ missing_df' = m
            /\ flags' = compute_quality_flags(HandBuilt(r, c, f), m)
    /\ endpoint' = "compute_quality_flags"
    /\ calls' = <<"compute_quality_flags">>
    /\ pc' = "done"
    /\ UNCHANGED <<req, file, df, score, response>>

Next ==
    \/ PostQuality \/ QualityValidate \/ QualityScore \/ QualityRespond
    \/ PostCsv \/ ReadCsv \/ CheckEmpty
    \/ Summarize \/ Missing \/ Flags
    \/ QualityFromCsvRespond \/ QualityFlagsFromCsvRespond
    \/ CoreOnFrame \/ CallComputeQualityFlags

Spec == Init /\ [][Next]_vars

-----------------------------------------------------------------------------
(* Properties.                                                             *)

RatAdd(a, b) == Rat(a[1] * b[2] + b[1] * a[2], a[2] * b[2])

\* compute_quality_flags has returned its dict into flags
Computed == calls # <<>> /\ calls[Len(calls)] = "compute_quality_flags"

\* summary and missing_df were both derived from df
Derived == Computed /\ endpoint \in CsvEndpoints \cup {"core"}

\* the sum of the penalties the returned flags call for
Penalties(f) ==
    LET hundredths == (IF f.too_few_rows THEN 20 ELSE 0)
                      + (IF f.too_many_columns THEN 10 ELSE 0)
                      + (IF f.has_constant_columns THEN 15 ELSE 0)
                      + (IF f.has_many_zero_values THEN 15 ELSE 0)
    IN  RatAdd(f.max_missing_share, Rat(hundredths, 100))

\* C1: quality_score is 1.0 less max_missing_share and less 0.2, 0.1, 0.15,
\* 0.15 for too_few_rows, too_many_columns, has_constant_columns,
\* has_many_zero_values, clamped to [0.0, 1.0]; so it always lies in [0, 1].
C1_QualityScoreClamped ==
    Computed =>
        /\ RatLE(Zero, flags.quality_score) /\ RatLE(flags.quality_score, One)
        /\ flags.quality_score =
             IF RatLE(One, Penalties(flags)) THEN Zero
             ELSE IF RatLE(Penalties(flags), Zero) THEN One
             ELSE RatSub(One, Penalties(flags))

\* the penalties total more than 1.0 and the score is clamped to 0.0
C1_Witness ==
    /\ Computed
    /\ RatLT(One, Penalties(flags))
    /\ flags.too_few_rows /\ flags.has_constant_columns /\ flags.has_many_zero_values
    /\ flags.quality_score = Zero

\* the index of summary.columns[i].name in the missing table, 0 if absent
RowOf(m, name) ==
    IF \E j \in 1..Len(m) : m[j].name = name
    THEN CHOOSE j \in 1..Len(m) : m[j].name = name
    ELSE 0

\* the missing table has exactly the summary's columns, with the same shares
Consistent(s, m) ==
    /\ { m[j].name : j \in 1..Len(m) } = { s.columns[i].name : i \in 1..Len(s.columns) }
    /\ \A i \in 1..Len(s.columns) :
         m[RowOf(m, s.columns[i].name)].missing_share = s.columns[i].missing_share

\* C2: compute_quality_flags returns no flags and score for inconsistent
\* inputs (it fails with an input-mismatch error instead).
C2_FailsOnMismatch ==
    (endpoint = "compute_quality_flags" /\ pc = "done" /\ ~Consistent(summary, missing_df))
        => DOMAIN flags = {}

\* the j-th smallest element of a set of indices
Nth(idx, j) == CHOOSE i \in idx : Cardinality({ k \in idx : k < i }) = j - 1

\* names lists the names of the columns at the indices idx, in column order
ListsInOrder(names, idx, cols) ==
    /\ Len(names) = Cardinality(idx)
    /\ \A j \in 1..Len(names) : names[j] = cols[Nth(idx, j)].name

\* unique_count <= floor(non_null_count * 0.7), in exact arithmetic
HighZeroBySpec(col) ==
    /\ col.is_numeric /\ col.non_null > 0
    /\ col.min = Zero
    /\ 10 * col.unique <= 7 * col.non_null

\* C3: high_zero_column_names lists, in summary order, exactly the numeric
\* columns with non_null_count > 0, min == 0 and
\* unique_count <= floor(non_null_count * 0.7); high_zero_columns is its length
\* and has_many_zero_values says it is not empty.
C3_HighZeroRule ==
    Computed =>
        /\ ListsInOrder(flags.high_zero_column_names,
                        { i \in 1..Len(summary.columns) : HighZeroBySpec(summary.columns[i]) },
                        summary.columns)
        /\ flags.high_zero_columns = Len(flags.high_zero_column_names)
        /\ flags.has_many_zero_values <=> flags.high_zero_column_names # <<>>

\* the non-missing values of the column are all the same one
AllIdentical(col) ==
    \E v \in CellValues \ {NaN} :
        /\ \E i \in 1..Len(col.cells) : col.cells[i] = v
        /\ \A i \in 1..Len(col.cells) : col.cells[i] \in {v, NaN}

\* C4: constant_column_names lists, in summary order, exactly the columns
\* with unique_count <= 1; constant_columns_count is its length and
\* has_constant_columns says it is not empty; a column whose non-missing values
\* are all identical has unique_count == 1 and sets has_constant_columns.
C4_ConstantColumns ==
    /\ Computed =>
        /\ ListsInOrder(flags.constant_column_names,
                        { i \in 1..Len(summary.columns) : summary.columns[i].unique <= 1 },
                        summary.columns)
        /\ flags.constant_columns_count = Len(flags.constant_column_names)
        /\ flags.has_constant_columns <=> flags.constant_column_names # <<>>
    /\ Derived =>
        \A i \in 1..Len(df.cols) :
            AllIdentical(df.cols[i]) =>
                summary.columns[i].unique = 1 /\ flags.has_constant_columns

\* a column of identical values next to an all-missing one: both are listed
C4_Witness ==
    /\ Derived
    /\ Len(df.cols) = 2
    /\ AllIdentical(df.cols[1]) /\ df.cols[1].cells[1] = NaN
    /\ summary.columns[2].unique = 0
    /\ flags.constant_column_names = <<"c1", "c2">>
    /\ flags.has_constant_columns

\* summarize_dataset has returned the summary of df
Summarized == \E i \in 1..Len(calls) : calls[i] = "summarize_dataset"

\* C5 as stated: every column profile has 0.0 <= missing_share <= 1.0, and
\* missing_share is 0.0 exactly when row_count == 0.
C5_ZeroExactlyWhenNoRows ==
    Summarized =>
        \A i \in 1..Len(summary.columns) :
            /\ RatLE(Zero, summary.columns[i].missing_share)
            /\ RatLE(summary.columns[i].missing_share, One)
            /\ summary.columns[i].missing_share = Zero <=> summary.n_rows = 0

\* C5 as amended: every column profile has 0.0 <= missing_share <= 1.0;
\* missing_share is 0.0 whenever row_count == 0, and in general exactly when
\* the column has no missing cell.
C5_MissingShareRange ==
    Summarized =>
        \A i \in 1..Len(summary.columns) :
            /\ RatLE(Zero, summary.columns[i].missing_share)
            /\ RatLE(summary.columns[i].missing_share, One)
            /\ summary.n_rows = 0 => summary.columns[i].missing_share = Zero
            /\ summary.columns[i].missing_share = Zero
                 <=> \A j \in 1..Len(df.cols[i].cells) : df.cols[i].cells[j] # NaN

\* a table without rows is summarized: its columns have missing_share 0.0
C5_Witness ==
    /\ Summarized
    /\ summary.n_rows = 0
    /\ Len(summary.columns) = 2
    /\ summary.columns[2].missing_share = Zero

\* the largest missing_share among the summary's columns, 0.0 without columns
WorstShare(cols) ==
    IF cols = <<>> THEN Zero
    ELSE CHOOSE x \in { cols[i].missing_share : i \in 1..Len(cols) } :
            \A i \in 1..Len(cols) : RatLE(cols[i].missing_share, x)

\* C6: with summary and missing table derived from the same table, the flag
\* max_missing_share is the maximum of the summary columns' missing_share
\* (0.0 without columns), and too_many_missing says that it exceeds 0.5.
C6_MaxMissingShare ==
    Derived =>
        /\ flags.max_missing_share = WorstShare(summary.columns)
        /\ flags.too_many_missing <=> RatLT(Rat(1, 2), WorstShare(summary.columns))

\* the worst column is not the first one of the table, and it is over 0.5
C6_Witness ==
    /\ Derived
    /\ Len(summary.columns) = 2
    /\ summary.columns[1].missing_share = Zero
    /\ summary.columns[2].missing_share = One
    /\ flags.max_missing_share = One
    /\ flags.too_many_missing

\* POST /quality has answered 200
QualityAnswered == endpoint = "/quality" /\ pc = "done" /\ response.status = 200

\* clamp((1 - max_missing_share) * (numeric_cols / n_cols), 0, 1), from the request
AggregateScore(r) ==
    LET x == Rat((r.max_missing_share[2] - r.max_missing_share[1]) * r.numeric_cols,
                 r.max_missing_share[2] * r.n_cols)
    IN  IF RatLT(x, Zero) THEN Zero ELSE IF RatLT(One, x) THEN One ELSE x

\* C7 as stated: for n_rows > 0 and n_cols > 0 the score of the answer is
\* clamp((1 - max_missing_share) * (numeric_cols / n_cols), 0, 1), the flags
\* are too_few_rows = (n_rows < 50) and too_many_missing =
\* (max_missing_share > 0.3), and ok_for_model says that the score is >= 0.5.
C7_ScoreOfAnswer ==
    QualityAnswered =>
        /\ response.body.quality_score = AggregateScore(req)
        /\ response.body.flags.too_few_rows <=> req.n_rows < 50
        /\ response.body.flags.too_many_missing <=> RatLT(Rat(3, 10), req.max_missing_share)
        /\ response.body.ok_for_model <=> RatLE(Rat(1, 2), response.body.quality_score)

\* twice the distance between two rationals is at most 1/1000
WithinHalfThousandth(a, b) ==
    /\ RatLE(RatSub(a, b), Rat(1, 2000))
    /\ RatLE(RatSub(b, a), Rat(1, 2000))

\* C7 as amended: the quality_score of the answer is that clamped product
\* rounded to three decimals, the flags are as stated, and ok_for_model says
\* that the clamped product before rounding is >= 0.5.
C7_RoundedScore ==
    QualityAnswered =>
        /\ req.n_rows > 0 /\ req.n_cols > 0
        /\ 1000 % response.body.quality_score[2] = 0
        /\ WithinHalfThousandth(response.body.quality_score, AggregateScore(req))
        /\ response.body.flags.too_few_rows <=> req.n_rows < 50
        /\ response.body.flags.too_many_missing <=> RatLT(Rat(3, 10), req.max_missing_share)
        /\ response.body.ok_for_model <=> RatLE(Rat(1, 2), AggregateScore(req))

\* the example of the specification: 10 rows, 5 columns, 0.1 missing, 3 numeric
C7_Witness ==
    /\ QualityAnswered
    /\ req.n_rows = 10 /\ req.n_cols = 5 /\ req.numeric_cols = 3
    /\ req.max_missing_share = Rat(1, 10)
    /\ response.body.quality_score = Rat(54, 100)
    /\ response.body.ok_for_model
    /\ response.body.flags.too_few_rows /\ ~response.body.flags.too_many_missing

\* C8: a /quality request with n_rows <= 0 or n_cols <= 0 ends in the 400
\* error with no score, flags or ok_for_model computed or returned, and the
\* division by n_cols never fails.
C8_InvalidAggregate ==
    endpoint = "/quality" =>
        /\ response.detail # "ZeroDivisionError"
        /\ (req.n_rows <= 0 \/ req.n_cols <= 0) =>
             /\ pc \in {"validate", "done"}
             /\ score = Zero /\ DOMAIN flags = {}
             /\ DOMAIN response.body = {}
             /\ pc = "done" => response = HTTPException(400, "n_rows and n_cols must be > 0")

\* rows are given but n_cols is 0: the request is refused
C8_Witness ==
    /\ endpoint = "/quality" /\ pc = "done"
    /\ req.n_rows > 0 /\ req.n_cols = 0
    /\ response.status = 400

IsPrefix(a, b) == Len(a) <= Len(b) /\ a = SubSeq(b, 1, Len(a))

CsvSteps == <<"read_csv", "df.empty", "summarize_dataset", "missing_table", "compute_quality_flags">>

\* none of the three core functions has run and nothing of a result exists
NothingComputed ==
    /\ summary = NoSummary /\ missing_df = <<>> /\ DOMAIN flags = {}
    /\ DOMAIN response.body = {}

\* C9: both CSV endpoints parse, check for emptiness and call
\* summarize_dataset, missing_table, compute_quality_flags in this order;
\* unparseable input ends in 'Cannot read CSV', a parsed empty table in
\* 'Empty CSV', and in both cases no core function runs and no partial result
\* is returned.
C9_CsvOrderAndErrors ==
    endpoint \in CsvEndpoints =>
        /\ IsPrefix(calls, CsvSteps)
        /\ (pc = "done" /\ ~file.parseable) =>
             /\ response = HTTPException(400, "Cannot read CSV")
             /\ calls = <<"read_csv">>
             /\ NothingComputed
        /\ (pc = "done" /\ file.parseable /\ IsEmpty(file.table)) =>
             /\ response = HTTPException(400, "Empty CSV")
             /\ calls = <<"read_csv", "df.empty">>
             /\ NothingComputed
        /\ (pc = "done" /\ file.parseable /\ ~IsEmpty(file.table)) =>
             /\ response.status = 200
             /\ calls = CsvSteps
        /\ HTTPException(400, "Cannot read CSV") # HTTPException(400, "Empty CSV")

\* a header without rows was uploaded and refused as empty
C9_Witness ==
    /\ endpoint = "/quality-flags-from-csv" /\ pc = "done"
    /\ file.parseable /\ file.table.n_rows = 0 /\ Len(file.table.cols) = 2
    /\ response.detail = "Empty CSV"
    /\ calls = <<"read_csv", "df.empty">>

\* /quality-from-csv has answered 200
FromCsvAnswered == endpoint = "/quality-from-csv" /\ pc = "done" /\ response.status = 200

\* how many of the 11 flag values Python takes for false
FalsyFlags(f) ==
    Cardinality({ k \in {"too_few_rows", "too_many_columns", "too_many_missing",
                         "has_constant_columns", "has_many_zero_values"} : f[k] = FALSE })
    + Cardinality({ k \in {"constant_columns_count", "high_zero_columns"} : f[k] = 0 })
    + Cardinality({ k \in {"max_missing_share", "quality_score"} : f[k] = Zero })
    + Cardinality({ k \in {"constant_column_names", "high_zero_column_names"} : Len(f[k]) = 0 })

\* C10 as stated: the top-level quality_score of /quality-from-csv is the
\* fraction of the 11 flag entries whose value is falsy, and ok_for_model says
\* that this fraction is >= 0.5.
C10_ScoreIsFalsyFraction ==
    FromCsvAnswered =>
        /\ response.body.quality_score = Rat(FalsyFlags(response.body.flags), 11)
        /\ response.body.ok_for_model <=> 2 * FalsyFlags(response.body.flags) >= 11

\* C10 as amended: the top-level quality_score is that fraction rounded to
\* three decimals, and ok_for_model says that the fraction is >= 0.5.
C10_RoundedFalsyFraction ==
    FromCsvAnswered =>
        /\ Cardinality(DOMAIN response.body.flags) = 11
        /\ 1000 % response.body.quality_score[2] = 0
        /\ WithinHalfThousandth(response.body.quality_score,
                                Rat(FalsyFlags(response.body.flags), 11))
        /\ response.body.ok_for_model <=> 2 * FalsyFlags(response.body.flags) >= 11

\* the two scores disagree: the core's is 0.0, which counts as one of five
\* falsy entries, and the top-level one is 0.455
C10_Witness ==
    /\ FromCsvAnswered
    /\ response.body.flags.quality_score = Zero
    /\ FalsyFlags(response.body.flags) = 5
    /\ response.body.quality_score = Rat(455, 1000)
    /\ ~response.body.ok_for_model

====
